---- MODULE Spec2Model ----
(***************************************************************************)
(* Vector retrieval and perspective synthesis of kindling:                *)
(*   backend/src/create_embeddings.py  EmbeddingStore                     *)
(*   backend/src/perspective.py        PerspectiveGenerator               *)
(* The store is one EmbeddingStore object (dimension, embedding_model,    *)
(* FAISS IndexFlatL2, metadata list) and the pair of files it is saved to *)
(* and loaded from.  Every method is one action; what the last call       *)
(* returned or raised is kept in `last`.  The HTTP service of             *)
(* backend/main.py is modelled by its scrape pipeline (`scrape`, `loop`)  *)
(* and its generate-perspective endpoint.                                 *)
(***************************************************************************)
EXTENDS Integers, Sequences, FiniteSets, TLC

VARIABLES store, idxFile, mdFile, configDim, loadCalled, last, scrape, loop

vars == <<store, idxFile, mdFile, configDim, loadCalled, last, scrape, loop>>

----------------------------------------------------------------------------
(* Bounds of the model *)

\* largest number of vectors / metadata records a store or a file holds
MaxStore == 2
\* largest number of texts passed to one add_texts call
MaxBatch == 2
\* largest k / top_k passed to search
MaxK == 3
\* largest number of entries in the pair of files the service starts with
MaxPersisted == 1

----------------------------------------------------------------------------
(* Data *)

\* Embedding models and the width of the vectors the provider returns for
\* each (1 and 2 stand for 1536 and 3072).
EmbeddingModels == {"text-embedding-3-small", "text-embedding-3-large"}

ModelWidth(m) == IF m = "text-embedding-3-small" THEN 1 ELSE 2

Dimensions == {ModelWidth(m) : m \in EmbeddingModels}

\* Fragments as the labeling step emits them: text, category, summary.
Fragments ==
    { [text |-> "a", category |-> "industry", summary |-> "s1"],
      [text |-> "b", category |-> "world",    summary |-> "s22"] }

\* Query strings: empty, whitespace-only, and a non-blank one.
Queries == {"", " ", "a"}

\* The provider's embedding of one text under one model (opaque, but a
\* function of model and text).
EmbedVec(m, t) ==
    IF ModelWidth(m) = 1
    THEN CASE t = "a" -> <<0>>
           [] t = "b" -> <<1>>
           [] t = " " -> <<2>>
           [] OTHER   -> <<3>>
    ELSE CASE t = "a" -> <<0, 0>>
           [] t = "b" -> <<1, 0>>
           [] t = " " -> <<0, 1>>
           [] OTHER   -> <<1, 1>>

\* All sequences over S of length at most n
SeqsUpTo(S, n) == UNION { [1..k -> S] : k \in 0..n }

\* Outcomes of one embeddings.create call: it returns or it raises
\* (timeout, API error).
ProviderOutcomes == {"ok", "raise"}

\* A path at which no file exists
NoFile == [exists |-> FALSE, readable |-> FALSE, data |-> <<>>]

\* A metadata file that exists and does not parse as JSON
Unreadable == [exists |-> TRUE, readable |-> FALSE, data |-> <<>>]

\* A file that exists and holds data
FileOf(data) == [exists |-> TRUE, readable |-> TRUE, data |-> data]

----------------------------------------------------------------------------
(* EmbeddingStore *)

\* faiss.IndexFlatL2(dimension): width d and the stored vectors in order
NewIndex(d) == [d |-> d, vecs |-> <<>>]

\* EmbeddingStore.__init__
NewStore(m, d) ==
    [dimension |-> d, embedding_model |-> m,
     index |-> NewIndex(d), metadata |-> <<>>]

\* index.ntotal
NTotal(ix) == Len(ix.vecs)

\* (variant: the provider is called once for each text)
CreateEmbeddingsPerItem(s, texts, outcome) ==
    IF outcome = "raise"
    THEN [raised |-> TRUE, err |-> "ProviderError", vecs |-> <<>>, calls |-> 1]
    ELSE LET embeddings == [i \in 1..Len(texts) |->
                               EmbedVec(s.embedding_model, texts[i])]
         IN IF Len(embeddings[1]) # s.dimension
            THEN [raised |-> TRUE, err |-> "ValueError:dimension",
                  vecs |-> <<>>, calls |-> Len(texts)]
            ELSE [raised |-> FALSE, err |-> "", vecs |-> embeddings,
                  calls |-> Len(texts)]

\* EmbeddingStore.create_embeddings on a non-empty list: one provider call
\* for the whole list, then the width check against self.dimension.
CreateEmbeddings(s, texts, outcome) ==
    IF outcome = "raise"
    THEN [raised |-> TRUE, err |-> "ProviderError", vecs |-> <<>>, calls |-> 1]
    ELSE LET embeddings == [i \in 1..Len(texts) |->
                               EmbedVec(s.embedding_model, texts[i])]
         IN IF Len(embeddings[1]) # s.dimension
            THEN [raised |-> TRUE, err |-> "ValueError:dimension",
                  vecs |-> <<>>, calls |-> 1]
            ELSE [raised |-> FALSE, err |-> "", vecs |-> embeddings, calls |-> 1]

\* faiss index.add(x): the wrapper asserts x.shape[1] == index.d
IndexAddAccepts(ix, vecs) == \A i \in 1..Len(vecs) : Len(vecs[i]) = ix.d

\* (variant: the new vectors are put before the stored ones)
IndexAddInFront(ix, vecs) == [ix EXCEPT !.vecs = vecs \o @]

\* (variant: the new vectors take the place of the stored ones)
IndexAddReplaces(ix, vecs) == [ix EXCEPT !.vecs = vecs]

IndexAdd(ix, vecs) == [ix EXCEPT !.vecs = @ \o vecs]

\* (variant: the metadata list is extended before the embeddings are
\* created, so a failing provider call leaves the records behind)
AddTextsMetadataFirst(s, texts, metadata_list, outcome) ==
    IF Len(texts) # Len(metadata_list)
    THEN [store |-> s, raised |-> TRUE, err |-> "ValueError:length", calls |-> 0]
    ELSE IF texts = <<>>
    THEN [store |-> s, raised |-> FALSE, err |-> "", calls |-> 0]
    ELSE LET e == CreateEmbeddings(s, texts, outcome)
             s1 == [s EXCEPT !.metadata = @ \o metadata_list]
         IN IF e.raised
            THEN [store |-> s1, raised |-> TRUE, err |-> e.err, calls |-> e.calls]
            ELSE IF ~IndexAddAccepts(s.index, e.vecs)
            THEN [store |-> s1, raised |-> TRUE, err |-> "AssertionError:faiss",
                  calls |-> e.calls]
            ELSE [store |-> [s1 EXCEPT !.index = IndexAdd(s.index, e.vecs)],
                  raised |-> FALSE, err |-> "", calls |-> e.calls]

\* (variant: the two lengths are compared only after the embeddings have
\* been created)
AddTextsLengthCheckLast(s, texts, metadata_list, outcome) ==
    IF texts = <<>>
    THEN [store |-> s, raised |-> Len(metadata_list) # 0,
          err |-> IF Len(metadata_list) # 0 THEN "ValueError:length" ELSE "",
          calls |-> 0]
    ELSE LET e == CreateEmbeddings(s, texts, outcome)
         IN IF e.raised
            THEN [store |-> s, raised |-> TRUE, err |-> e.err, calls |-> e.calls]
            ELSE IF Len(texts) # Len(metadata_list)
            THEN [store |-> s, raised |-> TRUE, err |-> "ValueError:length",
                  calls |-> e.calls]
            ELSE IF ~IndexAddAccepts(s.index, e.vecs)
            THEN [store |-> s, raised |-> TRUE, err |-> "AssertionError:faiss",
                  calls |-> e.calls]
            ELSE [store |-> [s EXCEPT !.index = IndexAdd(s.index, e.vecs),
                                      !.metadata = @ \o metadata_list],
                  raised |-> FALSE, err |-> "", calls |-> e.calls]

\* EmbeddingStore.add_texts: the store after the call and how it ended
AddTexts(s, texts, metadata_list, outcome) ==
    IF Len(texts) # Len(metadata_list)
    THEN [store |-> s, raised |-> TRUE, err |-> "ValueError:length", calls |-> 0]
    ELSE IF texts = <<>>
    THEN [store |-> s, raised |-> FALSE, err |-> "", calls |-> 0]
    ELSE LET e == CreateEmbeddings(s, texts, outcome)
         IN IF e.raised
            THEN [store |-> s, raised |-> TRUE, err |-> e.err, calls |-> e.calls]
            ELSE IF ~IndexAddAccepts(s.index, e.vecs)
            THEN [store |-> s, raised |-> TRUE, err |-> "AssertionError:faiss",
                  calls |-> e.calls]
            ELSE [store |-> [s EXCEPT !.index = IndexAdd(s.index, e.vecs),
                                      !.metadata = @ \o metadata_list],
                  raised |-> FALSE, err |-> "", calls |-> e.calls]


----------------------------------------------------------------------------
(* Persistence *)

RECURSIVE Flatten(_)
Flatten(vs) == IF vs = <<>> THEN <<>> ELSE Head(vs) \o Flatten(Tail(vs))

\* faiss.write_index: header (d, ntotal) and the vectors as one flat array
WriteIndex(ix) == [d |-> ix.d, ntotal |-> Len(ix.vecs), xb |-> Flatten(ix.vecs)]

\* faiss.read_index: the index rebuilt from header and flat array
ReadIndex(f) ==
    [d |-> f.d,
     vecs |-> [i \in 1..f.ntotal |-> SubSeq(f.xb, (i - 1) * f.d + 1, i * f.d)]]

\* json.dump(self.metadata): an array of objects, each a set of key/value pairs
JsonDump(md) ==
    [i \in 1..Len(md) |->
        {<<k, md[i][k]>> : k \in DOMAIN md[i]}]

JsonValue(obj, k) == (CHOOSE p \in obj : p[1] = k)[2]

\* json.load: the list of dicts read back
JsonLoad(f) ==
    [i \in 1..Len(f) |->
        [k \in {p[1] : p \in f[i]} |-> JsonValue(f[i], k)]]

\* How a save call can end: it returns, or it raises before the index file
\* is written, after the index file and before the metadata file is opened,
\* or while the metadata file (already truncated by open) is being written.
SaveOutcomes == {"ok", "fail_index", "fail_open_metadata", "fail_dump"}

\* The index file after EmbeddingStore.save
SaveIndexFile(s, old, outcome) ==
    IF outcome = "fail_index" THEN old ELSE FileOf(WriteIndex(s.index))

\* The metadata file after EmbeddingStore.save
SaveMetadataFile(s, old, outcome) ==
    CASE outcome = "ok"        -> FileOf(JsonDump(s.metadata))
      [] outcome = "fail_dump" -> Unreadable
      [] OTHER                 -> old

\* (variant: the metadata read from the file is never assigned)
LoadStoreKeepsMetadata(s, ixf, mdf) ==
    IF ~ixf.exists
    THEN [store |-> s, raised |-> TRUE, err |-> "FileNotFoundError:index"]
    ELSE LET s1 == [s EXCEPT !.index = ReadIndex(ixf.data)]
         IN IF ~mdf.exists
            THEN [store |-> s1, raised |-> TRUE, err |-> "FileNotFoundError:metadata"]
            ELSE IF ~mdf.readable
            THEN [store |-> s1, raised |-> TRUE, err |-> "JSONDecodeError"]
            ELSE [store |-> [s1 EXCEPT !.dimension = s1.index.d],
                  raised |-> FALSE, err |-> ""]

\* EmbeddingStore.load: the store after the call and how it ended.  The
\* index attribute is assigned as soon as the index file is read; metadata
\* and dimension only after the metadata file is read.
LoadStore(s, ixf, mdf) ==
    IF ~ixf.exists
    THEN [store |-> s, raised |-> TRUE, err |-> "FileNotFoundError:index"]
    ELSE LET s1 == [s EXCEPT !.index = ReadIndex(ixf.data)]
         IN IF ~mdf.exists
            THEN [store |-> s1, raised |-> TRUE, err |-> "FileNotFoundError:metadata"]
            ELSE IF ~mdf.readable
            THEN [store |-> s1, raised |-> TRUE, err |-> "JSONDecodeError"]
            ELSE [store |-> [s1 EXCEPT !.metadata = JsonLoad(mdf.data),
                                       !.dimension = s1.index.d],
                  raised |-> FALSE, err |-> ""]

----------------------------------------------------------------------------
(* Search *)

\* Distance column of a result slot FAISS could not fill (fewer than k
\* vectors stored): the largest float32; its label is -1.
FLT_MAX == 1000000

RECURSIVE SumSq(_, _, _)
SumSq(u, v, i) ==
    IF i > Len(u) THEN 0 ELSE (u[i] - v[i]) * (u[i] - v[i]) + SumSq(u, v, i + 1)

\* Squared Euclidean distance, as IndexFlatL2 reports it
SqDist(u, v) == SumSq(u, v, 1)

\* The orders in which IndexFlatL2 can rank the stored vectors for query
\* vector qv: every arrangement of the 0-based labels by non-decreasing
\* distance (the order among equal distances is not specified).
RankOrders(ix, qv) ==
    LET n == Len(ix.vecs)
    IN { p \in [1..n -> 0..(n - 1)] :
           /\ \A i, j \in 1..n : i # j => p[i] # p[j]
           /\ \A i \in 1..(n - 1) :
                 SqDist(qv, ix.vecs[p[i] + 1]) <= SqDist(qv, ix.vecs[p[i + 1] + 1]) }

\* index.search(x, k): k (distance, label) pairs, the nearest first, padded
\* with (FLT_MAX, -1) when fewer than k vectors are stored.
IndexSearch(ix, qv, k, order) ==
    [i \in 1..k |->
        IF i <= Len(ix.vecs)
        THEN [distance |-> SqDist(qv, ix.vecs[order[i] + 1]), idx |-> order[i]]
        ELSE [distance |-> FLT_MAX, idx |-> -1]]

\* Python list indexing self.metadata[idx]: a negative idx counts from the end
PyIndexInRange(md, idx) == -Len(md) <= idx /\ idx < Len(md)

PyIndex(md, idx) == IF idx >= 0 THEN md[idx + 1] ELSE md[Len(md) + idx + 1]

\* The guard of the result loop: idx < len(self.metadata)
ResultGuard(md, idx) == idx < Len(md)

\* One result dict: a copy of the metadata record plus distance and rank
ResultOf(rec, distance, i) ==
    [text |-> rec.text, category |-> rec.category, summary |-> rec.summary,
     distance |-> distance, rank |-> i]

\* The result loop over zip(distances[0], indices[0]), from slot i on
RECURSIVE ResultLoop(_, _, _)
ResultLoop(md, hits, i) ==
    IF i > Len(hits) THEN <<>>
    ELSE IF ResultGuard(md, hits[i].idx)
         THEN <<ResultOf(PyIndex(md, hits[i].idx), hits[i].distance, i)>>
                 \o ResultLoop(md, hits, i + 1)
         ELSE ResultLoop(md, hits, i + 1)

\* The loop indexes self.metadata out of range (IndexError)
ResultLoopRaises(md, hits) ==
    \E i \in 1..Len(hits) :
        ResultGuard(md, hits[i].idx) /\ ~PyIndexInRange(md, hits[i].idx)

\* (variant: the query is embedded and the index searched even when the
\* index holds no vectors)
SearchStoreNoEmptyCheck(s, query, k, outcome, order) ==
    LET e == CreateEmbeddings(s, <<query>>, outcome)
    IN IF e.raised
       THEN [raised |-> TRUE, err |-> e.err, results |-> <<>>, calls |-> e.calls]
       ELSE IF ~IndexAddAccepts(s.index, e.vecs)
       THEN [raised |-> TRUE, err |-> "AssertionError:faiss",
             results |-> <<>>, calls |-> e.calls]
       ELSE LET hits == IndexSearch(s.index, e.vecs[1], k, order)
            IN IF ResultLoopRaises(s.metadata, hits)
               THEN [raised |-> TRUE, err |-> "IndexError",
                     results |-> <<>>, calls |-> e.calls]
               ELSE [raised |-> FALSE, err |-> "",
                     results |-> ResultLoop(s.metadata, hits, 1),
                     calls |-> e.calls]

\* EmbeddingStore.search: what it returns or raises, and the provider calls
SearchStore(s, query, k, outcome, order) ==
    IF NTotal(s.index) = 0
    THEN [raised |-> FALSE, err |-> "", results |-> <<>>, calls |-> 0]
    ELSE LET e == CreateEmbeddings(s, <<query>>, outcome)
         IN IF e.raised
            THEN [raised |-> TRUE, err |-> e.err, results |-> <<>>, calls |-> e.calls]
            ELSE IF ~IndexAddAccepts(s.index, e.vecs)
            THEN [raised |-> TRUE, err |-> "AssertionError:faiss",
                  results |-> <<>>, calls |-> e.calls]
            ELSE LET hits == IndexSearch(s.index, e.vecs[1], k, order)
                 IN IF ResultLoopRaises(s.metadata, hits)
                    THEN [raised |-> TRUE, err |-> "IndexError",
                          results |-> <<>>, calls |-> e.calls]
                    ELSE [raised |-> FALSE, err |-> "",
                          results |-> ResultLoop(s.metadata, hits, 1),
                          calls |-> e.calls]

\* (variant: the result is the stored dict itself, not a copy of it, so the
\* distance and the rank are written into the stored record)
StoredRecordAliased(rec, distance, i) == ResultOf(rec, distance, i)

\* The stored metadata record after one pass of the result loop: the result
\* is self.metadata[idx].copy(), a new dict whose values are strings, so
\* writing distance and rank into the result leaves the stored record alone
StoredRecordAfter(rec, distance, i) == rec

\* self.metadata after the result loop has run from slot i on (the loop
\* ends where it raises IndexError)
RECURSIVE MetadataAfterLoop(_, _, _)
MetadataAfterLoop(md, hits, i) ==
    IF i > Len(hits) THEN md
    ELSE IF ~ResultGuard(md, hits[i].idx)
    THEN MetadataAfterLoop(md, hits, i + 1)
    ELSE IF ~PyIndexInRange(md, hits[i].idx)
    THEN md
    ELSE LET pos == IF hits[i].idx >= 0 THEN hits[i].idx + 1
                                        ELSE Len(md) + hits[i].idx + 1
         IN MetadataAfterLoop(
                [md EXCEPT ![pos] = StoredRecordAfter(md[pos], hits[i].distance, i)],
                hits, i + 1)

\* The store after EmbeddingStore.search has returned or raised: search
\* assigns no attribute of self; it only reads the index and the metadata
StoreAfterSearch(s, query, k, outcome, order) ==
    IF NTotal(s.index) = 0 THEN s
    ELSE LET e == CreateEmbeddings(s, <<query>>, outcome)
         IN IF e.raised \/ ~IndexAddAccepts(s.index, e.vecs) THEN s
            ELSE [s EXCEPT !.metadata =
                     MetadataAfterLoop(s.metadata,
                                       IndexSearch(s.index, e.vecs[1], k, order), 1)]

\* The rank orders search can see for a query: those of the query's
\* embedding when the index holds vectors of that width, else any (unused)
SearchOrders(s, query) ==
    LET qv == EmbedVec(s.embedding_model, query)
    IN IF NTotal(s.index) > 0 /\ Len(qv) = s.index.d
       THEN RankOrders(s.index, qv)
       ELSE {<<>>}

----------------------------------------------------------------------------
(* PerspectiveGenerator *)

\* max_context_length values a caller passes; 2000 is the default
ContextLengths == {3, 60, 106, 2000}

\* persona_prompt: absent or a one-sentence string
Personas == {"", "You are a founder."}

\* How chat.completions.create can end: it raises (timeout, API error), it
\* returns a response with no choices or with content None (malformed), or
\* it returns a content string.
LlmFailures == {"raise", "no_choices", "none_content"}

LlmContents == {" An answer.\n", "  "}

LlmOutcomes == LlmFailures \cup LlmContents

\* str.strip() on the strings of the model
Strip(x) ==
    CASE x = " "             -> ""
      [] x = "  "            -> ""
      [] x = " An answer.\n" -> "An answer."
      [] OTHER               -> x

\* str(e) of the exception the synthesis step raises
LlmError(outcome) ==
    CASE outcome = "raise"        -> "APIError"
      [] outcome = "no_choices"   -> "IndexError"
      [] outcome = "none_content" -> "AttributeError"
      [] OTHER                    -> ""

\* len(str(i)) for the source numbers of the model
DigitLen(i) == IF i < 10 THEN 1 ELSE 2

\* len(source_text) of the block of the i-th result:
\* "Source i (Category: c):\nSummary: s\nContent: t\n"
BlockLen(i, r) ==
    Len("Source ") + DigitLen(i) + Len(" (Category: ") + Len(r.category)
      + Len("):\n") + Len("Summary: ") + Len(r.summary) + Len("\n")
      + Len("Content: ") + Len(r.text) + Len("\n")

\* (variant: the loop goes on to the next result after a block that did not
\* fit instead of stopping)
RECURSIVE PackLoopContinue(_, _, _, _)
PackLoopContinue(results, i, total_length, max_context_length) ==
    IF i > Len(results) THEN <<>>
    ELSE LET n == BlockLen(i, results[i])
         IN IF total_length + n > max_context_length
            THEN LET remaining == max_context_length - total_length - Len("...\n")
                 IN (IF remaining > 0
                     THEN <<[source |-> i, chars |-> remaining + Len("...\n"),
                             truncated |-> TRUE]>>
                     ELSE <<>>)
                      \o PackLoopContinue(results, i + 1, total_length,
                                          max_context_length)
            ELSE <<[source |-> i, chars |-> n, truncated |-> FALSE]>>
                    \o PackLoopContinue(results, i + 1, total_length + n,
                                        max_context_length)

\* The packing loop from the i-th result on, total_length characters being
\* packed already: the context parts appended, each the number of the
\* result, the characters of it kept (truncation marker included) and
\* whether it was truncated.
RECURSIVE PackLoop(_, _, _, _)
PackLoop(results, i, total_length, max_context_length) ==
    IF i > Len(results) THEN <<>>
    ELSE LET n == BlockLen(i, results[i])
         IN IF total_length + n > max_context_length
            THEN LET remaining == max_context_length - total_length - Len("...\n")
                 IN IF remaining > 0
                    THEN <<[source |-> i, chars |-> remaining + Len("...\n"),
                            truncated |-> TRUE]>>
                    ELSE <<>>
            ELSE <<[source |-> i, chars |-> n, truncated |-> FALSE]>>
                    \o PackLoop(results, i + 1, total_length + n,
                                max_context_length)

\* context_parts for a result list
ContextParts(results, max_context_length) ==
    PackLoop(results, 1, 0, max_context_length)

RECURSIVE SumChars(_)
SumChars(parts) ==
    IF parts = <<>> THEN 0 ELSE Head(parts).chars + SumChars(Tail(parts))

\* len("\n".join(context_parts))
ContextLen(parts) ==
    IF parts = <<>> THEN 0 ELSE SumChars(parts) + (Len(parts) - 1) * Len("\n")

\* round(1.0 / (1.0 + distance), 4) in ten-thousandths, for a distance that
\* is a positive whole number (nearest, halves to even)
RoundedScore(distance) ==
    LET den == 1 + distance
        q == 10000 \div den
        r == 10000 % den
    IN IF 2 * r > den \/ (2 * r = den /\ q % 2 = 1) THEN q + 1 ELSE q

\* relevance_score in ten-thousandths
RelevanceScore(distance) ==
    IF distance > 0 THEN RoundedScore(distance) ELSE 10000

\* The sources list of a successful synthesis
FullSources(results) ==
    [i \in 1..Len(results) |->
        [rank |-> results[i].rank, category |-> results[i].category,
         summary |-> results[i].summary,
         relevance_score |-> RelevanceScore(results[i].distance)]]

\* The sources list of the fallback response
BareSources(results) ==
    [i \in 1..Len(results) |->
        [category |-> results[i].category, summary |-> results[i].summary]]

\* The system message: the fixed instruction, the persona prepended if given
SystemMessage(persona_prompt) ==
    IF persona_prompt # "" THEN <<persona_prompt, "analyst">> ELSE <<"analyst">>

\* (variant: the no-results response also carries an error entry)
NoResultsResponseWithError(query) ==
    [perspective |-> <<"no_relevant_information">>, sources |-> <<>>,
     query |-> query, keys |-> {"perspective", "sources", "query", "error"},
     error |-> "no results"]

\* The dict returned when retrieval is empty
NoResultsResponse(query) ==
    [perspective |-> <<"no_relevant_information">>, sources |-> <<>>,
     query |-> query, keys |-> {"perspective", "sources", "query"},
     error |-> ""]

\* (variant: the model output is returned as received, not stripped)
SuccessResponseUntrimmed(query, results, content) ==
    [perspective |-> <<"model_output", content>>,
     sources |-> FullSources(results),
     query |-> query, keys |-> {"perspective", "sources", "query"},
     error |-> ""]

\* The dict returned when synthesis succeeds
SuccessResponse(query, results, content) ==
    [perspective |-> <<"model_output", Strip(content)>>,
     sources |-> FullSources(results),
     query |-> query, keys |-> {"perspective", "sources", "query"},
     error |-> ""]

\* (variant: the fallback carries no sources)
FallbackResponseNoSources(query, results, outcome) ==
    [perspective |-> <<"apology", Len(results), query>>,
     sources |-> <<>>,
     query |-> query, keys |-> {"perspective", "sources", "query", "error"},
     error |-> LlmError(outcome)]

\* The fallback dict returned when the synthesis step raises
FallbackResponse(query, results, outcome) ==
    [perspective |-> <<"apology", Len(results), query>>,
     sources |-> BareSources(results),
     query |-> query, keys |-> {"perspective", "sources", "query", "error"},
     error |-> LlmError(outcome)]

\* The try block: the response for one outcome of the language-model call
Synthesize(query, results, outcome) ==
    IF outcome \in LlmFailures
    THEN FallbackResponse(query, results, outcome)
    ELSE SuccessResponse(query, results, outcome)

\* (variant: an error of the search is caught and answered with the
\* no-results response)
GeneratePerspectiveCatchesSearch(s, query, top_k, max_context_length, persona_prompt, provider, order, llm) ==
    LET sr == SearchStore(s, query, top_k, provider, order)
    IN IF sr.raised \/ sr.results = <<>>
       THEN [raised |-> FALSE, err |-> "", response |-> NoResultsResponse(query),
             results |-> <<>>, context |-> <<>>, system |-> <<>>, llm |-> "",
             providerCalls |-> sr.calls, llmCalls |-> 0]
       ELSE [raised |-> FALSE, err |-> "",
             response |-> Synthesize(query, sr.results, llm),
             results |-> sr.results,
             context |-> ContextParts(sr.results, max_context_length),
             system |-> SystemMessage(persona_prompt), llm |-> llm,
             providerCalls |-> sr.calls, llmCalls |-> 1]

\* PerspectiveGenerator.search_and_generate_perspective on store s: what it
\* returns or raises, the retrieval results, the context and system message
\* sent to the language model, how the language-model call ended, and the
\* provider and language-model calls.
GeneratePerspective(s, query, top_k, max_context_length, persona_prompt, provider, order, llm) ==
    LET sr == SearchStore(s, query, top_k, provider, order)
    IN IF sr.raised
       THEN [raised |-> TRUE, err |-> sr.err, response |-> <<>>,
             results |-> <<>>, context |-> <<>>, system |-> <<>>, llm |-> "",
             providerCalls |-> sr.calls, llmCalls |-> 0]
       ELSE IF sr.results = <<>>
       THEN [raised |-> FALSE, err |-> "", response |-> NoResultsResponse(query),
             results |-> <<>>, context |-> <<>>, system |-> <<>>, llm |-> "",
             providerCalls |-> sr.calls, llmCalls |-> 0]
       ELSE [raised |-> FALSE, err |-> "",
             response |-> Synthesize(query, sr.results, llm),
             results |-> sr.results,
             context |-> ContextParts(sr.results, max_context_length),
             system |-> SystemMessage(persona_prompt), llm |-> llm,
             providerCalls |-> sr.calls, llmCalls |-> 1]

----------------------------------------------------------------------------
(* What the last call was and how it ended *)

CallRecord(op, raised, err, providerCalls, llmCalls, args, ret) ==
    [op |-> op, raised |-> raised, err |-> err,
     providerCalls |-> providerCalls, llmCalls |-> llmCalls,
     args |-> args, ret |-> ret]

\* No call has returned since the caller last took a result
NoCall == CallRecord("none", FALSE, "", 0, 0, <<>>, <<>>)

\* Calls on one store run one at a time, each to completion (the caller
\* takes the result of a call before it makes the next one).
Idle == last = NoCall

\* The scrape requests the service is handling
ScrapeRequests == {"r1", "r2"}

\* EmbeddingStore(debug=False): the default model and its dimension
DefaultStore ==
    NewStore("text-embedding-3-small", ModelWidth("text-embedding-3-small"))

\* No scrape request has been received
NoScrapes ==
    [r \in ScrapeRequests |->
        [pc |-> "none", batch |-> <<>>, store |-> DefaultStore,
         loadRaised |-> FALSE, err |-> ""]]

Init ==
    /\ \E m \in EmbeddingModels, d \in Dimensions :
          /\ store = NewStore(m, d)
          /\ configDim = d
    /\ idxFile = NoFile
    /\ mdFile = NoFile
    /\ loadCalled = FALSE
    /\ last = NoCall
    /\ scrape = NoScrapes
    /\ loop = "free"

\* A new EmbeddingStore object is constructed; the files stay as they are.
Construct ==
    \E m \in EmbeddingModels, d \in Dimensions :
        /\ Idle
        /\ store' = NewStore(m, d)
        /\ configDim' = d
        /\ loadCalled' = FALSE
        /\ last' = CallRecord("construct", FALSE, "", 0, 0, <<>>, <<>>)
        /\ UNCHANGED <<idxFile, mdFile, scrape, loop>>

\* The texts a caller passes with a metadata list: the fragments' texts
\* (main.py, load_labeled_json), possibly one short or one long.
TextsOf(mdl) == [i \in 1..Len(mdl) |-> mdl[i].text]

TextArgs(mdl) ==
    {TextsOf(mdl)}
      \cup (IF mdl # <<>> THEN {SubSeq(TextsOf(mdl), 1, Len(mdl) - 1)} ELSE {})
      \cup {TextsOf(mdl) \o <<"a">>}

Add ==
    \E mdl \in SeqsUpTo(Fragments, MaxBatch), outcome \in ProviderOutcomes :
      \E texts \in TextArgs(mdl) :
        /\ Idle
        /\ NTotal(store.index) + Len(texts) <= MaxStore
        /\ Len(store.metadata) + Len(mdl) <= MaxStore
        /\ LET r == AddTexts(store, texts, mdl, outcome)
           IN /\ store' = r.store
              /\ last' = CallRecord("add", r.raised, r.err, r.calls, 0,
                                    [texts |-> Len(texts), metadata |-> Len(mdl),
                                     provider |-> outcome, metadata_list |-> mdl],
                                    <<>>)
        /\ UNCHANGED <<idxFile, mdFile, configDim, loadCalled, scrape, loop>>

Save ==
    \E outcome \in SaveOutcomes :
        /\ Idle
        /\ idxFile' = SaveIndexFile(store, idxFile, outcome)
        /\ mdFile' = SaveMetadataFile(store, mdFile, outcome)
        /\ last' = CallRecord("save", outcome # "ok",
                              IF outcome = "ok" THEN "" ELSE "IOError",
                              0, 0, <<>>, <<>>)
        /\ UNCHANGED <<store, configDim, loadCalled, scrape, loop>>

Load ==
    LET r == LoadStore(store, idxFile, mdFile)
    IN /\ Idle
       /\ store' = r.store
       /\ loadCalled' = TRUE
       /\ last' = CallRecord("load", r.raised, r.err, 0, 0, <<>>, <<>>)
       /\ UNCHANGED <<idxFile, mdFile, configDim, scrape, loop>>

Search ==
    /\ Idle
    /\ \E query \in Queries, k \in 1..MaxK, outcome \in ProviderOutcomes :
         \E order \in SearchOrders(store, query) :
           LET r == SearchStore(store, query, k, outcome, order)
           IN /\ store' = StoreAfterSearch(store, query, k, outcome, order)
              /\ last' = CallRecord("search", r.raised, r.err, r.calls, 0,
                                    [query |-> query, k |-> k], r.results)
    /\ UNCHANGED <<idxFile, mdFile, configDim, loadCalled, scrape, loop>>

Answer ==
    /\ Idle
    /\ \E query \in Queries, top_k \in 1..MaxK, provider \in ProviderOutcomes,
          max_context_length \in ContextLengths, persona_prompt \in Personas,
          llm \in LlmOutcomes :
         \E order \in SearchOrders(store, query) :
           LET r == GeneratePerspective(store, query, top_k, max_context_length,
                                        persona_prompt, provider, order, llm)
           IN /\ store' = StoreAfterSearch(store, query, top_k, provider, order)
              /\ last' = CallRecord("answer", r.raised, r.err, r.providerCalls,
                                    r.llmCalls,
                                    [query |-> query, k |-> top_k,
                                     max_context_length |-> max_context_length,
                                     provider |-> provider],
                                    [response |-> r.response, results |-> r.results,
                                     context |-> r.context, system |-> r.system,
                                     llm |-> r.llm])
    /\ UNCHANGED <<idxFile, mdFile, configDim, loadCalled, scrape, loop>>

\* PerspectiveGenerator.format_output on a result dict: the lines of the
\* output (query, perspective, one entry per source), or the KeyError of
\* source['rank'] for a source without a rank
FormatOutput(result) ==
    IF \E i \in 1..Len(result.sources) : "rank" \notin DOMAIN result.sources[i]
    THEN [raised |-> TRUE, err |-> "KeyError:rank", output |-> <<>>]
    ELSE [raised |-> FALSE, err |-> "",
          output |-> <<result.query, result.perspective,
                       [i \in 1..Len(result.sources) |->
                          <<result.sources[i].rank, result.sources[i].category,
                            result.sources[i].summary>>]>>]

\* The caller formats the result the answer call has just returned
Format ==
    /\ last.op = "answer"
    /\ ~last.raised
    /\ LET f == FormatOutput(last.ret.response)
       IN last' = CallRecord("format", f.raised, f.err, 0, 0,
                             [result |-> last.ret.response], f.output)
    /\ UNCHANGED <<store, idxFile, mdFile, configDim, loadCalled, scrape, loop>>

\* The caller takes the result of the call that has returned or raised
Return ==
    /\ ~Idle
    /\ last' = NoCall
    /\ UNCHANGED <<store, idxFile, mdFile, configDim, loadCalled, scrape, loop>>

Next == Construct \/ Add \/ Save \/ Load \/ Return

Spec == Init /\ [][Next]_vars

----------------------------------------------------------------------------
(* Retrieval and synthesis on the stores the lifecycle produces *)

\* Stores built by construction and one successful add_texts call
BuiltStores ==
    { AddTexts(NewStore(m, d), TextsOf(mdl), mdl, "ok").store :
        m \in EmbeddingModels, d \in Dimensions,
        mdl \in SeqsUpTo(Fragments, MaxStore) }

\* One sequence is the beginning of the other
IsPrefix(a, b) == Len(a) <= Len(b) /\ SubSeq(b, 1, Len(a)) = a

\* The metadata files that can lie beside the index file saved of store sa:
\* none, one cut short, or the one saved of the same append-only store at
\* the same, an earlier or a later length
MetadataFilesBeside(sa) ==
    {NoFile, Unreadable}
      \cup { FileOf(JsonDump(sb.metadata)) :
               sb \in { x \in BuiltStores :
                          \/ IsPrefix(x.metadata, sa.metadata)
                          \/ IsPrefix(sa.metadata, x.metadata) } }

\* Stores as main.py and the command line use them: constructed, then
\* loaded from the saved files (the load returning or raising)
LoadedStores ==
    UNION { { LoadStore(NewStore(m, d), FileOf(WriteIndex(sa.index)), mdf).store :
                m \in EmbeddingModels, d \in Dimensions,
                mdf \in MetadataFilesBeside(sa) } :
            sa \in BuiltStores }

QueryStores == BuiltStores \cup LoadedStores

InitQuery ==
    /\ store \in QueryStores
    /\ configDim = store.dimension
    /\ idxFile = NoFile
    /\ mdFile = NoFile
    /\ loadCalled = FALSE
    /\ last = NoCall
    /\ scrape = NoScrapes
    /\ loop = "free"

NextQuery == Search \/ Answer \/ Format \/ Return

SpecQuery == InitQuery /\ [][NextQuery]_vars

----------------------------------------------------------------------------
(* The scrape pipeline of the HTTP service (main.py, scrape_profiles) *)

\* The labeled texts of one scrape request (the pipeline runs only when
\* there are texts)
ScrapeBatches == {mdl \in SeqsUpTo(Fragments, MaxBatch) : mdl # <<>>}

\* Stores some earlier run has saved
PersistedStores ==
    { AddTexts(NewStore(m, ModelWidth(m)), TextsOf(mdl), mdl, "ok").store :
        m \in EmbeddingModels, mdl \in SeqsUpTo(Fragments, MaxPersisted) }

\* The pair of files the service finds at embeddings.index and
\* embeddings_metadata.json: none, or a saved index with its metadata file,
\* with an unreadable one or with none
ScrapeDisks ==
    {<<NoFile, NoFile>>}
      \cup UNION { { <<FileOf(WriteIndex(sa.index)), mdf>> :
                        mdf \in {NoFile, Unreadable,
                                 FileOf(JsonDump(sa.metadata))} } :
                      sa \in PersistedStores }

\* (variant: the handler awaits between loading the store and adding to it)
AwaitPointsAfterLoad == {"add"}

\* The positions of the pipeline at which the handler awaits and the event
\* loop can run another request: scrape_profiles is an async def whose body
\* has no await, so there is none
AwaitPoints == {}

\* The event loop can run request r: it is running it, or it is free and r
\* is new or waits at an await
CanRun(r) ==
    \/ loop = r
    \/ loop = "free" /\ scrape[r].pc \in AwaitPoints \cup {"wait"}

\* Who holds the event loop when r has moved to position pc
LoopAfter(r, pc) == IF pc = "done" \/ pc \in AwaitPoints THEN "free" ELSE r

\* The handler starts and constructs its EmbeddingStore
ScrapeStart(r) ==
    /\ scrape[r].pc = "wait"
    /\ CanRun(r)
    /\ scrape' = [scrape EXCEPT ![r].pc = "load", ![r].store = DefaultStore]
    /\ loop' = LoopAfter(r, "load")
    /\ UNCHANGED <<store, idxFile, mdFile, configDim, loadCalled, last>>

\* Load existing embeddings if both files exist; an exception of load is
\* printed ("creating new") and the pipeline goes on with the same object
ScrapeLoad(r) ==
    /\ scrape[r].pc = "load"
    /\ CanRun(r)
    /\ LET l == IF idxFile.exists /\ mdFile.exists
                THEN LoadStore(scrape[r].store, idxFile, mdFile)
                ELSE [store |-> scrape[r].store, raised |-> FALSE, err |-> ""]
       IN scrape' = [scrape EXCEPT ![r].pc = "add", ![r].store = l.store,
                                   ![r].loadRaised = l.raised]
    /\ loop' = LoopAfter(r, "add")
    /\ UNCHANGED <<store, idxFile, mdFile, configDim, loadCalled, last>>

\* embedding_store.add_texts(texts_for_embedding, metadata_for_embedding);
\* an exception ends the pipeline with a warning in the response
ScrapeAdd(r) ==
    /\ scrape[r].pc = "add"
    /\ CanRun(r)
    /\ \E outcome \in ProviderOutcomes :
         LET a == AddTexts(scrape[r].store, TextsOf(scrape[r].batch),
                           scrape[r].batch, outcome)
             pc == IF a.raised THEN "done" ELSE "save"
         IN /\ scrape' = [scrape EXCEPT ![r].pc = pc, ![r].store = a.store,
                                         ![r].err = a.err]
            /\ loop' = LoopAfter(r, pc)
    /\ UNCHANGED <<store, idxFile, mdFile, configDim, loadCalled, last>>

\* embedding_store.save(index_path, metadata_path), then the response
ScrapeSave(r) ==
    /\ scrape[r].pc = "save"
    /\ CanRun(r)
    /\ \E outcome \in SaveOutcomes :
         /\ idxFile' = SaveIndexFile(scrape[r].store, idxFile, outcome)
         /\ mdFile' = SaveMetadataFile(scrape[r].store, mdFile, outcome)
         /\ scrape' = [scrape EXCEPT ![r].pc = "done",
                          ![r].err = IF outcome = "ok" THEN "" ELSE "IOError"]
    /\ loop' = LoopAfter(r, "done")
    /\ UNCHANGED <<store, configDim, loadCalled, last>>

\* The service has received two scrape requests, each with its labeled
\* texts, and has a pair of files from earlier runs (or none)
InitScrape ==
    /\ store = DefaultStore
    /\ configDim = DefaultStore.dimension
    /\ loadCalled = FALSE
    /\ last = NoCall
    /\ \E disk \in ScrapeDisks : idxFile = disk[1] /\ mdFile = disk[2]
    /\ scrape \in [ScrapeRequests ->
                      {[pc |-> "wait", batch |-> b, store |-> DefaultStore,
                        loadRaised |-> FALSE, err |-> ""] : b \in ScrapeBatches}]
    /\ loop = "free"

NextScrape ==
    \E r \in ScrapeRequests :
        ScrapeStart(r) \/ ScrapeLoad(r) \/ ScrapeAdd(r) \/ ScrapeSave(r)

SpecScrape == InitScrape /\ [][NextScrape]_vars

----------------------------------------------------------------------------
(* The generate-perspective endpoint of the HTTP service (main.py) *)

\* HTTP status codes of the endpoint
HttpOk == 200
BadRequest == 400
NotFound == 404
ServerError == 500

\* max_context_length when the caller passes none
DefaultMaxContextLength == 2000

\* The body of PerspectiveResponse: perspective, sources and query of the
\* result dict; any other entry of the dict is left out
PerspectiveBody(response) ==
    [perspective |-> response.perspective, sources |-> response.sources,
     query |-> response.query, keys |-> {"perspective", "sources", "query"}]

\* The body of an error reply
ErrorBody(detail) ==
    [perspective |-> <<>>, sources |-> <<>>, query |-> "", keys |-> {"detail"}]

\* (variant: a result dict that carries an error entry is answered with a
\* server error)
GeneratePerspectiveEndpointStrict(query, top_k, ixf, mdf, persona_prompt, provider, order, llm) ==
    IF Strip(query) = ""
    THEN [status |-> BadRequest, body |-> ErrorBody("empty"), store |-> DefaultStore,
          loaded |-> FALSE, providerCalls |-> 0, llmCalls |-> 0]
    ELSE IF ~ixf.exists \/ ~mdf.exists
    THEN [status |-> NotFound, body |-> ErrorBody("not found"), store |-> DefaultStore,
          loaded |-> FALSE, providerCalls |-> 0, llmCalls |-> 0]
    ELSE LET l == LoadStore(DefaultStore, ixf, mdf)
         IN IF l.raised
            THEN [status |-> ServerError, body |-> ErrorBody(l.err), store |-> l.store,
                  loaded |-> TRUE, providerCalls |-> 0, llmCalls |-> 0]
            ELSE LET g == GeneratePerspective(l.store, Strip(query), top_k,
                                              DefaultMaxContextLength,
                                              persona_prompt, provider, order, llm)
                 IN IF g.raised \/ "error" \in g.response.keys
                    THEN [status |-> ServerError, body |-> ErrorBody(g.err),
                          store |-> l.store, loaded |-> TRUE,
                          providerCalls |-> g.providerCalls, llmCalls |-> g.llmCalls]
                    ELSE [status |-> HttpOk, body |-> PerspectiveBody(g.response),
                          store |-> l.store, loaded |-> TRUE,
                          providerCalls |-> g.providerCalls, llmCalls |-> g.llmCalls]

\* generate_perspective: the reply (status and body), the generator's store
\* after the request, whether load was called, and the provider and
\* language-model calls.  HTTPException(400) for a blank query and
\* HTTPException(404) for a missing file are re-raised; every other
\* exception becomes HTTPException(500).
GeneratePerspectiveEndpoint(query, top_k, ixf, mdf, persona_prompt, provider, order, llm) ==
    IF Strip(query) = ""
    THEN [status |-> BadRequest, body |-> ErrorBody("empty"), store |-> DefaultStore,
          loaded |-> FALSE, providerCalls |-> 0, llmCalls |-> 0]
    ELSE IF ~ixf.exists \/ ~mdf.exists
    THEN [status |-> NotFound, body |-> ErrorBody("not found"), store |-> DefaultStore,
          loaded |-> FALSE, providerCalls |-> 0, llmCalls |-> 0]
    ELSE LET l == LoadStore(DefaultStore, ixf, mdf)
         IN IF l.raised
            THEN [status |-> ServerError, body |-> ErrorBody(l.err), store |-> l.store,
                  loaded |-> TRUE, providerCalls |-> 0, llmCalls |-> 0]
            ELSE LET g == GeneratePerspective(l.store, Strip(query), top_k,
                                              DefaultMaxContextLength,
                                              persona_prompt, provider, order, llm)
                 IN IF g.raised
                    THEN [status |-> ServerError, body |-> ErrorBody(g.err),
                          store |-> l.store, loaded |-> TRUE,
                          providerCalls |-> g.providerCalls, llmCalls |-> g.llmCalls]
                    ELSE [status |-> HttpOk, body |-> PerspectiveBody(g.response),
                          store |-> l.store, loaded |-> TRUE,
                          providerCalls |-> g.providerCalls, llmCalls |-> g.llmCalls]

\* The store the endpoint searches for the pair of files on disk (the
\* default store when it does not get to load them)
EndpointStore(ixf, mdf) ==
    IF ixf.exists /\ mdf.exists THEN LoadStore(DefaultStore, ixf, mdf).store
                                ELSE DefaultStore

\* One request to POST /api/generate-perspective
PerspectiveRequest ==
    /\ Idle
    /\ \E query \in Queries, top_k \in 1..MaxK, provider \in ProviderOutcomes,
          persona_prompt \in Personas, llm \in LlmOutcomes :
         \E order \in SearchOrders(EndpointStore(idxFile, mdFile), Strip(query)) :
           LET r == GeneratePerspectiveEndpoint(query, top_k, idxFile, mdFile,
                                                persona_prompt, provider, order, llm)
           IN /\ store' = r.store
              /\ loadCalled' = r.loaded
              /\ last' = CallRecord("generate_perspective", r.status # HttpOk, "",
                                    r.providerCalls, r.llmCalls,
                                    [query |-> query, k |-> top_k,
                                     provider |-> provider, llm |-> llm],
                                    [status |-> r.status, body |-> r.body])
    /\ UNCHANGED <<idxFile, mdFile, configDim, scrape, loop>>

\* The pairs of files the endpoint can find: none, or a saved index with
\* any of the metadata files that can lie beside it
EndpointDisks ==
    {<<NoFile, NoFile>>}
      \cup UNION { { <<FileOf(WriteIndex(sa.index)), mdf>> :
                        mdf \in MetadataFilesBeside(sa) } :
                      sa \in BuiltStores }

InitEndpoint ==
    /\ store = DefaultStore
    /\ configDim = DefaultStore.dimension
    /\ loadCalled = FALSE
    /\ last = NoCall
    /\ \E disk \in EndpointDisks : idxFile = disk[1] /\ mdFile = disk[2]
    /\ scrape = NoScrapes
    /\ loop = "free"

NextEndpoint == PerspectiveRequest \/ Return

SpecEndpoint == InitEndpoint /\ [][NextEndpoint]_vars

----------------------------------------------------------------------------
(* Properties *)

\* Position by position, the index holds the embedding of the record's text
Aligned(s) ==
    /\ Len(s.metadata) = NTotal(s.index)
    /\ \A i \in 1..Len(s.metadata) :
          s.index.vecs[i] = EmbedVec(s.embedding_model, s.metadata[i].text)

\* C1: on a store that has only been constructed and added to (no load),
\* whatever add calls succeeded or failed, there are as many metadata
\* records as vectors and vector i is the embedding of record i's text.
C1_AlignedAfterAdds == ~loadCalled => Aligned(store)

\* a failed add on a store that already holds fragments
C1_Witness ==
    /\ ~loadCalled
    /\ last.op = "add" /\ last.raised /\ last.err = "ProviderError"
    /\ NTotal(store.index) >= 1

\* C2: in every state reachable by add, save and load, the metadata list
\* and the index have the same length.
C2_SameLengthAlways == Len(store.metadata) = NTotal(store.index)

\* C3: a search with k above the number of stored vectors returns exactly
\* one result per stored vector (stated for aligned, non-empty stores).
C3_KSaturation ==
    (/\ last.op = "search" /\ ~last.raised
     /\ Aligned(store) /\ NTotal(store.index) >= 1
     /\ last.args.k > NTotal(store.index))
    => /\ Len(last.ret) = NTotal(store.index)
       /\ \A i, j \in 1..Len(last.ret) :
             i # j => last.ret[i].rank # last.ret[j].rank
       /\ \A i \in 1..Len(last.ret) : last.ret[i].distance # FLT_MAX

\* C4: the context sent to the language model is at most
\* max_context_length characters long, separators and marker included
\* (stated for aligned stores and top_k within the stored count, where every
\* result is a stored fragment).
C4_ContextWithinBound ==
    (/\ last.op = "answer" /\ last.llmCalls = 1
     /\ Aligned(store) /\ last.args.k <= NTotal(store.index))
    => ContextLen(last.ret.context) <= last.args.max_context_length

\* C5: load raises when one of the two files is missing or when the index
\* file and the metadata file hold different numbers of entries.
C5_LoadRaisesOnBadPair ==
    (/\ last.op = "load"
     /\ \/ ~idxFile.exists
        \/ ~mdFile.exists
        \/ /\ idxFile.readable /\ mdFile.readable
           /\ idxFile.data.ntotal # Len(mdFile.data))
    => last.raised

\* C6: a load call that raises leaves index, metadata and dimension as
\* they were before the call (stated for an index file of the dimension the
\* store was constructed with).
C6_FailedLoadChangesNothing ==
    [][(/\ Idle /\ last'.op = "load" /\ last'.raised
        /\ (idxFile.exists => idxFile.data.d = configDim))
       => store' = store]_vars

\* C7: a load of an index file whose dimension differs from the dimension
\* the store was constructed with raises and leaves the store unmodified;
\* the store's dimension stays the configured one.
C7_DimensionMismatchLoadFails ==
    [][(/\ Idle /\ last'.op = "load"
        /\ idxFile.exists /\ idxFile.data.d # configDim)
       => (last'.raised /\ store' = store /\ store'.dimension = configDim)]_vars

\* C8: answer on an empty or whitespace-only query raises, and it does so
\* before any provider or language-model call (stated for aligned stores
\* that hold fragments, where retrieval has something to search).
C8_BlankQueryRejected ==
    (/\ last.op = "answer" /\ Strip(last.args.query) = ""
     /\ Aligned(store) /\ NTotal(store.index) >= 1)
    => (last.raised /\ last.providerCalls = 0 /\ last.llmCalls = 0)

C10_AddAllOrNothing ==
    [][(/\ Idle /\ last'.op = "add"
        /\ last'.args.texts = last'.args.metadata /\ last'.args.texts > 0
        /\ \/ last'.args.provider = "raise"
           \/ ModelWidth(store.embedding_model) # store.dimension)
       => (/\ last'.raised
           /\ store'.index = store.index
           /\ store'.metadata = store.metadata)]_vars

\* a wrong-width provider answer on a store that holds vectors
C10_Witness ==
    /\ last.op = "add" /\ last.raised /\ last.err = "ValueError:dimension"
    /\ last.args.provider = "ok"
    /\ NTotal(store.index) >= 1 /\ Len(store.metadata) >= 1

\* C11: an add call whose texts list and metadata list differ in length
\* raises, sends nothing to the embedding provider and leaves the store
\* (index, metadata, dimension, model) exactly as it was.
C11_LengthMismatchRejected ==
    [][(Idle /\ last'.op = "add" /\ last'.args.texts # last'.args.metadata)
        => /\ last'.raised
           /\ last'.err = "ValueError:length"
           /\ last'.providerCalls = 0
           /\ store' = store]_vars

C11_Witness ==
    /\ last.op = "add"
    /\ last.args.texts # last.args.metadata
    /\ last.args.texts >= 1
    /\ last.err = "ValueError:length"
    /\ NTotal(store.index) >= 1

\* C12: round trip.  When the two files on disk are the ones a save wrote of
\* a store sb built by add calls, a load into a freshly constructed store of
\* the same embedding model returns, and the loaded store holds sb's
\* metadata records in sb's order, sb's vectors in sb's order, and answers
\* every search (query, k, provider outcome, tie order) exactly as sb does.
C12_SaveLoadRoundTrip ==
    [][(/\ Idle
        /\ last'.op = "load"
        /\ ~loadCalled
        /\ store = NewStore(store.embedding_model, configDim))
        => \A sb \in BuiltStores :
             (/\ sb.embedding_model = store.embedding_model
              /\ idxFile = FileOf(WriteIndex(sb.index))
              /\ mdFile = FileOf(JsonDump(sb.metadata)))
             => /\ ~last'.raised
                /\ store'.metadata = sb.metadata
                /\ store'.index.vecs = sb.index.vecs
                /\ \A query \in Queries, k \in 1..MaxK,
                      outcome \in ProviderOutcomes :
                      \A order \in SearchOrders(sb, query) :
                         SearchStore(store', query, k, outcome, order)
                           = SearchStore(sb, query, k, outcome, order)]_vars

\* A store constructed with another dimension than the saved index has
\* loaded a saved pair of two fragments
C12_Witness ==
    /\ last.op = "load"
    /\ ~last.raised
    /\ NTotal(store.index) >= 2
    /\ Aligned(store)
    /\ store.dimension # configDim
    /\ idxFile = FileOf(WriteIndex(store.index))
    /\ mdFile = FileOf(JsonDump(store.metadata))

\* C13: on a non-empty aligned store a search that returns gives the
\* min(k, n) stored fragments nearest to the query vector (squared Euclidean
\* distance), by non-decreasing distance; the entry at position p has rank
\* p, is a stored fragment and carries the distance of its own vector, and
\* at most p - 1 stored vectors are strictly nearer while at least p are as
\* near.
C13_NearestInOrder ==
    (/\ last.op = "search" /\ ~last.raised
     /\ Aligned(store) /\ NTotal(store.index) >= 1)
    => LET n == NTotal(store.index)
           qv == EmbedVec(store.embedding_model, last.args.query)
           res == last.ret
           Nearer(x) == {j \in 1..n : SqDist(qv, store.index.vecs[j]) < x}
           AsNear(x) == {j \in 1..n : SqDist(qv, store.index.vecs[j]) <= x}
       IN /\ Len(res) = (IF last.args.k <= n THEN last.args.k ELSE n)
          /\ \A p \in 1..Len(res) :
                /\ res[p].rank = p
                /\ \E j \in 1..n :
                      /\ store.metadata[j].text = res[p].text
                      /\ store.metadata[j].category = res[p].category
                      /\ store.metadata[j].summary = res[p].summary
                /\ res[p].distance
                     = SqDist(qv, EmbedVec(store.embedding_model, res[p].text))
                /\ Cardinality(Nearer(res[p].distance)) <= p - 1
                /\ Cardinality(AsNear(res[p].distance)) >= p
          /\ \A p \in 1..(Len(res) - 1) : res[p].distance <= res[p + 1].distance

\* C14: a search on a store whose index holds no vectors returns the empty
\* list for every query and k; it raises nothing and sends nothing to the
\* embedding provider, whatever the metadata list and the dimension are.
C14_EmptyIndexEmptyResult ==
    (last.op = "search" /\ NTotal(store.index) = 0)
    => /\ ~last.raised
       /\ last.ret = <<>>
       /\ last.providerCalls = 0

\* An empty index beside a non-empty metadata list, searched with the empty
\* query
C14_Witness ==
    /\ last.op = "search"
    /\ NTotal(store.index) = 0
    /\ Len(store.metadata) >= 1
    /\ last.args.query = ""
    /\ last.args.k = MaxK
    /\ last.ret = <<>>

\* C15: when retrieval returns no result, the answer operation returns the
\* fixed no-relevant-information response: an empty source list, the
\* caller's query, no error entry; the language model is not called.
C15_NoResultsResponse ==
    (last.op = "answer" /\ ~last.raised /\ last.ret.results = <<>>)
    => /\ last.ret.response.perspective = <<"no_relevant_information">>
       /\ last.ret.response.sources = <<>>
       /\ last.ret.response.query = last.args.query
       /\ "error" \notin last.ret.response.keys
       /\ last.ret.response.keys = {"perspective", "sources", "query"}
       /\ last.llmCalls = 0
       /\ last.ret.context = <<>>

\* An answer call on the empty store
C15_Witness ==
    /\ last.op = "answer"
    /\ ~last.raised
    /\ NTotal(store.index) = 0
    /\ Len(store.metadata) = 0
    /\ last.args.query = "a"
    /\ last.ret.results = <<>>
    /\ last.ret.response.sources = <<>>

\* C16: the context sent to the language model is a prefix of the retrieved
\* results in rank order: its i-th block is the block of the i-th result,
\* every block but the last is complete, and only the last one can be
\* truncated (shorter than its block); no block follows a missing one.
C16_ContextIsRankPrefix ==
    (last.op = "answer" /\ last.llmCalls = 1)
    => LET parts == last.ret.context
           results == last.ret.results
       IN /\ Len(parts) <= Len(results)
          /\ \A i \in 1..Len(parts) :
                /\ parts[i].source = i
                /\ (i < Len(parts)) => ~parts[i].truncated
                /\ ~parts[i].truncated
                     => parts[i].chars = BlockLen(i, results[i])
                /\ parts[i].truncated
                     => /\ parts[i].chars < BlockLen(i, results[i])
                        /\ parts[i].chars > Len("...\n")
                /\ Aligned(store) => results[parts[i].source].rank = i

\* One complete block followed by a truncated one
C16_Witness ==
    /\ last.op = "answer"
    /\ last.llmCalls = 1
    /\ Aligned(store)
    /\ last.args.k <= NTotal(store.index)
    /\ Len(last.ret.context) = 2
    /\ ~last.ret.context[1].truncated
    /\ last.ret.context[2].truncated

\* C17 as stated: on language-model success the sources list has one entry
\* per retrieved result, in order, with the result's rank, category and
\* summary, and each relevance_score is exactly 1/(1+distance) for a
\* positive distance and 1.0 otherwise (scores are in ten-thousandths).
\* Stated for aligned stores and top_k within the stored count, where every
\* result is a stored fragment.
C17_SuccessSourcesExact ==
    (/\ last.op = "answer" /\ last.llmCalls = 1 /\ last.ret.llm \in LlmContents
     /\ Aligned(store) /\ last.args.k <= NTotal(store.index))
    => LET results == last.ret.results
           sources == last.ret.response.sources
       IN /\ last.ret.response.perspective = <<"model_output", Strip(last.ret.llm)>>
          /\ Len(sources) = Len(results)
          /\ \A i \in 1..Len(sources) :
                /\ sources[i].rank = results[i].rank
                /\ sources[i].category = results[i].category
                /\ sources[i].summary = results[i].summary
                /\ IF results[i].distance > 0
                   THEN sources[i].relevance_score * (1 + results[i].distance)
                          = 10000
                   ELSE sources[i].relevance_score = 10000

\* C17 amended: on language-model success the answer operation returns the
\* trimmed model output with the query and no error entry, and a sources
\* list with one entry per retrieved result, in retrieval order, with the
\* result's rank, category and summary, whether or not its block reached
\* the context; each relevance_score is 1/(1+distance) rounded to four
\* decimal places (the nearest ten-thousandth) for a positive distance and
\* 1.0 otherwise.
C17_SuccessSourcesRounded ==
    (last.op = "answer" /\ last.llmCalls = 1 /\ last.ret.llm \in LlmContents)
    => LET results == last.ret.results
           sources == last.ret.response.sources
       IN /\ ~last.raised
          /\ last.ret.response.perspective = <<"model_output", Strip(last.ret.llm)>>
          /\ last.ret.response.query = last.args.query
          /\ "error" \notin last.ret.response.keys
          /\ Len(sources) = Len(results)
          /\ \A i \in 1..Len(sources) :
                /\ sources[i].rank = results[i].rank
                /\ sources[i].category = results[i].category
                /\ sources[i].summary = results[i].summary
                /\ IF results[i].distance > 0
                   THEN LET den == 1 + results[i].distance
                            off == sources[i].relevance_score * den - 10000
                        IN 2 * off <= den /\ -2 * off <= den
                   ELSE sources[i].relevance_score = 10000

\* A success whose context dropped or truncated a block and whose sources
\* hold a score that is not exactly 1/(1+distance)
C17_Witness ==
    /\ last.op = "answer"
    /\ last.llmCalls = 1
    /\ last.ret.llm = " An answer.\n"
    /\ Aligned(store)
    /\ last.args.k <= NTotal(store.index)
    /\ Len(last.ret.results) = 2
    /\ Len(last.ret.context) = 2
    /\ last.ret.context[2].truncated
    /\ \E i \in 1..2 :
          /\ last.ret.results[i].distance = 2
          /\ last.ret.response.sources[i].relevance_score = 3333

\* C18: every relevance_score the answer operation reports lies in (0, 1]
\* (in ten-thousandths: above 0, at most 10000), and of two results of one
\* answer the one with the larger distance has the strictly smaller score
\* (stated for aligned stores).
C18_ScoreInRangeAndDecreasing ==
    (/\ last.op = "answer" /\ last.llmCalls = 1 /\ last.ret.llm \in LlmContents
     /\ Aligned(store))
    => LET results == last.ret.results
           sources == last.ret.response.sources
       IN /\ \A i \in 1..Len(sources) :
                /\ sources[i].relevance_score > 0
                /\ sources[i].relevance_score <= 10000
          /\ \A i, j \in 1..Len(sources) :
                results[i].distance < results[j].distance
                  => sources[i].relevance_score > sources[j].relevance_score

\* C19: when the embedding provider fails, or returns a vector whose width
\* is not the store's dimension, while the answer operation retrieves on a
\* store that holds vectors, the call raises that error to the caller: it
\* returns no response (neither a degraded nor a no-relevant-information
\* one) and does not call the language model.
C19_RetrievalErrorsSurface ==
    (/\ last.op = "answer"
     /\ NTotal(store.index) >= 1
     /\ \/ last.args.provider = "raise"
        \/ ModelWidth(store.embedding_model) # store.dimension)
    => /\ last.raised
       /\ last.err = (IF last.args.provider = "raise" THEN "ProviderError"
                                                     ELSE "ValueError:dimension")
       /\ last.ret.response = <<>>
       /\ last.llmCalls = 0
       /\ last.providerCalls = 1

\* The provider answered with a vector of the wrong width
C19_Witness ==
    /\ last.op = "answer"
    /\ NTotal(store.index) >= 1
    /\ Len(store.metadata) >= 1
    /\ last.args.provider = "ok"
    /\ last.err = "ValueError:dimension"
    /\ last.raised

\* C20: a search or answer call, however it ends (results, no results,
\* degraded response, error), leaves the store as it was: the vector index,
\* the metadata sequence with every record's text, category and summary,
\* the dimension and the model; the distance and rank written into a
\* returned result record do not reach the stored record.  The files are
\* not touched either.
C20_QueriesLeaveStoreAlone ==
    [][(Idle /\ last'.op \in {"search", "answer"})
        => /\ store' = store
           /\ idxFile' = idxFile
           /\ mdFile' = mdFile]_vars

\* A search has returned two result records that carry distance and rank
\* while the stored records hold text, category and summary only
C20_Witness ==
    /\ last.op = "search"
    /\ ~last.raised
    /\ Len(last.ret) >= 2
    /\ last.ret[2].rank = 2
    /\ Aligned(store)
    /\ \A i \in 1..Len(store.metadata) :
          DOMAIN store.metadata[i] = {"text", "category", "summary"}

\* C21: the two scrape requests never overlap between load and save, and
\* each request that loaded the pair it found (or found none), added and
\* saved without error leaves on disk what was there when it saves followed
\* by its own fragments: vectors and metadata records, in order.  So after
\* both requests the pair holds the earlier entries and both requests'.
C21_ScrapesSerialized ==
    [][/\ ~(/\ scrape'["r1"].pc \in {"load", "add", "save"}
            /\ scrape'["r2"].pc \in {"load", "add", "save"})
       /\ \A r \in ScrapeRequests :
            (/\ scrape[r].pc = "save" /\ scrape'[r].pc = "done"
             /\ scrape'[r].err = "" /\ ~scrape[r].loadRaised)
            => LET b == scrape[r].batch
                   new == [i \in 1..Len(b) |->
                             EmbedVec(DefaultStore.embedding_model, b[i].text)]
               IN /\ (/\ idxFile.exists /\ mdFile.exists /\ mdFile.readable)
                       => /\ idxFile' = FileOf(WriteIndex(
                                [d |-> idxFile.data.d,
                                 vecs |-> ReadIndex(idxFile.data).vecs \o new]))
                          /\ mdFile' = FileOf(JsonDump(JsonLoad(mdFile.data) \o b))
                  /\ (~idxFile.exists /\ ~mdFile.exists)
                       => /\ idxFile' = FileOf(WriteIndex(
                                [d |-> DefaultStore.dimension, vecs |-> new]))
                          /\ mdFile' = FileOf(JsonDump(b))]_vars

\* Both requests are done without error and the pair on disk holds the
\* entry found at the start and the fragments of both
C21_Witness ==
    /\ \A r \in ScrapeRequests :
          /\ scrape[r].pc = "done"
          /\ scrape[r].err = ""
          /\ ~scrape[r].loadRaised
    /\ mdFile.readable
    /\ idxFile.data.ntotal = 1 + Len(scrape["r1"].batch) + Len(scrape["r2"].batch)
    /\ Len(JsonLoad(mdFile.data)) = idxFile.data.ntotal
    /\ scrape["r1"].batch # scrape["r2"].batch

\* C22: the generate-perspective endpoint answers a blank query with 400
\* before it touches the store, and a store that is missing, corrupt
\* (unreadable metadata file) or of another dimension than the service's
\* with the not-found reply 404, not with a generic server error.
C22_ErrorsMappedByKind ==
    (last.op = "generate_perspective")
    => /\ (Strip(last.args.query) = "")
            => /\ last.ret.status = BadRequest
               /\ ~loadCalled
               /\ last.providerCalls = 0
       /\ (/\ Strip(last.args.query) # ""
           /\ \/ ~idxFile.exists
              \/ ~mdFile.exists
              \/ ~mdFile.readable
              \/ idxFile.data.d # DefaultStore.dimension)
            => last.ret.status = NotFound

\* C23: when retrieval succeeded and the language model was called, the
\* generate-perspective endpoint answers with HTTP success and a body of
\* exactly perspective, sources and query (the query as searched), whether
\* the synthesis succeeded or degraded; the degraded body carries the
\* apology and one source per retrieved result.
C23_DegradedIsHttpSuccess ==
    (last.op = "generate_perspective" /\ last.llmCalls = 1)
    => /\ last.ret.status = HttpOk
       /\ last.ret.body.keys = {"perspective", "sources", "query"}
       /\ last.ret.body.query = Strip(last.args.query)
       /\ Len(last.ret.body.sources) >= 1
       /\ (last.args.llm \in LlmFailures)
            => last.ret.body.perspective[1] = "apology"
       /\ (last.args.llm \in LlmContents)
            => last.ret.body.perspective = <<"model_output", Strip(last.args.llm)>>

\* The language model failed and the reply is a success with two sources
C23_Witness ==
    /\ last.op = "generate_perspective"
    /\ last.llmCalls = 1
    /\ last.args.llm = "no_choices"
    /\ last.ret.status = HttpOk
    /\ Len(last.ret.body.sources) = 2
    /\ Aligned(store)

\* C24: the store is append-only under add.  After an add call that
\* returns, the vectors and metadata records held before are still there,
\* unchanged and at the same positions, followed by the new vectors and the
\* new records in the order given; and neither an add call that raises nor
\* a save call replaces or removes an entry.
C24_AppendOnly ==
    [][/\ (Idle /\ last'.op = "add" /\ ~last'.raised)
            => LET b == last'.args.metadata_list
               IN /\ store'.metadata = store.metadata \o b
                  /\ store'.index.vecs
                       = store.index.vecs
                           \o [i \in 1..Len(b) |->
                                 EmbedVec(store.embedding_model, b[i].text)]
                  /\ store'.index.d = store.index.d
       /\ (Idle /\ last'.op \in {"add", "save"})
            => /\ IsPrefix(store.metadata, store'.metadata)
               /\ IsPrefix(store.index.vecs, store'.index.vecs)]_vars

\* A second add has returned: the earlier entry is first, the new one after
C24_Witness ==
    /\ last.op = "add"
    /\ ~last.raised
    /\ last.args.texts = 1
    /\ NTotal(store.index) = 2
    /\ Len(store.metadata) = 2
    /\ store.metadata[2] = last.args.metadata_list[1]
    /\ store.metadata[1] # store.metadata[2]

\* C25 as stated: every add call whose texts and metadata lists have the
\* same length calls the embedding provider exactly once, whatever the
\* number of texts.
C25_OneProviderCall ==
    (last.op = "add" /\ last.args.texts = last.args.metadata)
    => last.providerCalls = 1

\* C25 amended: every add call whose two lists have the same length and
\* hold at least one text calls the embedding provider exactly once,
\* whatever the number of texts and however the call ends; an add call with
\* no texts returns without calling the provider.
C25_OneProviderCallUnlessEmpty ==
    (last.op = "add" /\ last.args.texts = last.args.metadata)
    => /\ (last.args.texts >= 1) => last.providerCalls = 1
       /\ (last.args.texts = 0)
            => last.providerCalls = 0 /\ ~last.raised

\* An add of two texts on a store that already holds entries has returned
\* after one provider call
C25_Witness ==
    /\ last.op = "add"
    /\ ~last.raised
    /\ last.args.texts = MaxBatch
    /\ last.args.metadata = MaxBatch
    /\ last.providerCalls = 1
    /\ NTotal(store.index) >= MaxBatch

\* C26: format_output returns a formatted string and does not raise for
\* every result the answer operation returns: the successful, the
\* no-results and the degraded one (stated for aligned stores).
C26_FormatAcceptsEveryResult ==
    (last.op = "format" /\ Aligned(store))
    => /\ ~last.raised
       /\ Len(last.ret) = 3

\* C27: after a save call of an aligned store has returned or raised, with
\* a consistent older pair at the same paths, the index file and the
\* metadata file describe the same number of entries.
C27_SavedPairConsistent ==
    [][(/\ Idle /\ last'.op = "save" /\ Aligned(store)
        /\ idxFile.exists /\ mdFile.exists /\ mdFile.readable
        /\ idxFile.data.ntotal = Len(mdFile.data))
        => /\ idxFile'.exists /\ mdFile'.exists /\ mdFile'.readable
           /\ idxFile'.data.ntotal = Len(mdFile'.data)]_vars

\* C28: in the scrape pipeline, when the load of the existing pair raises
\* and the pipeline goes on ("creating new"), the store the new fragments
\* are added to is empty, and the store that is then saved holds exactly
\* the new fragments, with as many vectors as metadata records.
C28_CreatingNewStartsEmpty ==
    \A r \in ScrapeRequests :
        scrape[r].loadRaised
          => /\ (scrape[r].pc = "add")
                  => /\ NTotal(scrape[r].store.index) = 0
                     /\ scrape[r].store.metadata = <<>>
             /\ (scrape[r].pc \in {"save", "done"} /\ scrape[r].err = "")
                  => /\ scrape[r].store.metadata = scrape[r].batch
                     /\ NTotal(scrape[r].store.index) = Len(scrape[r].batch)

\* C29: the ranks of every search result are contiguous: a result list of
\* length m carries the ranks 1, 2, ..., m in order, on every store that
\* add, save and load can produce.
C29_RanksContiguous ==
    (last.op = "search" /\ ~last.raised)
    => \A p \in 1..Len(last.ret) : last.ret[p].rank = p

\* C30: in every state reachable by construction, add, save and load (load
\* calls that raise part-way included) the store's configured dimension is
\* the dimension of the index it holds.
C30_DimensionIsIndexWidth ==
    store.dimension = store.index.d

====
